---- MODULE Spec2Model ----
(***************************************************************************)
(* A model of edinet_tdnet_downloader.py: the retrying HTTP wrapper        *)
(* (http_get), the identifier parser and the registry filter               *)
(* (parse_codes_names, edinet_pick), the run log (append_log) and the      *)
(* driver (main) with its registry pass (edinet_fetch_list, edinet_pick,   *)
(* edinet_download) and its feed pass (tdnet_download_dec_summary).        *)
(*                                                                         *)
(* Strings are tuples of one-character strings, so that the substring,     *)
(* case-folding and sanitising code can be modelled by what it does.       *)
(***************************************************************************)
EXTENDS Integers, Sequences, FiniteSets, TLC

VARIABLES
    h,          \* the locals of the running http_get call (SpecHttp)
    pk,         \* the arguments and the result of an edinet_pick call (SpecPick)
    index_csv,  \* the run log file: absent, or its sequence of CSV records
    lg,         \* the history of append_log calls on index_csv (SpecLog)
    m           \* the state of a run of main (SpecMain)

vars == <<h, pk, index_csv, lg, m>>

\* the sequences over S of length at most n
SeqsUpTo(S, n) == UNION {[1..k -> S] : k \in 0..n}

\* the value of a variable the specification at hand does not use
Unused == [pc |-> "unused"]

\* ------------------------------------------------------------------ bounds
\* the largest max_retries an http_get call is started with
MaxRetries == 3

\* the longest record list handed to edinet_pick
MaxRecs == 2
\* the most comma-separated tokens in a --codes argument
MaxTokens == 2

\* the most calls of append_log on one index.csv
MaxAppends == 3
\* the most rows one call of append_log is given
MaxRows == 2

\* the last day a date range can name (days are numbered from 1)
MaxDay == 2
\* the most records in one day's listing
MaxDocs == 2
\* the most entries one feed holds
MaxEntries == 2

\* ------------------------------------------------------------------ strings
Digits == {"0", "1", "2", "3", "4", "5", "6", "7", "8", "9"}
Upper == [c \in {"T", "N", "Y", "S"} |->
             CASE c = "T" -> "t" [] c = "N" -> "n" [] c = "Y" -> "y" [] c = "S" -> "s"]

\* case folding of one character (re.IGNORECASE)
Fold(c) == IF c \in DOMAIN Upper THEN Upper[c] ELSE c

\* str.strip(): leading and trailing blanks removed
RECURSIVE LStrip(_)
LStrip(t) == IF t # <<>> /\ Head(t) = " " THEN LStrip(Tail(t)) ELSE t
RECURSIVE RStrip(_)
RStrip(t) == IF t # <<>> /\ t[Len(t)] = " " THEN RStrip(SubSeq(t, 1, Len(t) - 1)) ELSE t
Strip(t) == RStrip(LStrip(t))

\* pat.search(text) for pat = re.compile(re.escape(tok), re.IGNORECASE): tok
\* occurs in text, letter case ignored
Search(tok, text) ==
    \E i \in 0..(Len(text) - Len(tok)) :
        \A j \in 1..Len(tok) : Fold(text[i + j]) = Fold(tok[j])

\* "x in text" for str: x occurs in text
Occurs(x, text) ==
    \E i \in 0..(Len(text) - Len(x)) : \A j \in 1..Len(x) : text[i + j] = x[j]

\* CODE4.match(tok): exactly four digits
CODE4(tok) == Len(tok) = 4 /\ \A j \in 1..4 : tok[j] \in Digits

\* Optional[set] and Optional[List] values: None, or a value
NoSet == [none |-> TRUE, val |-> {}]
NoList == [none |-> TRUE, val |-> <<>>]
Some(v) == [none |-> FALSE, val |-> v]
\* the truth value Python gives an Optional set, an Optional list
TruthySet(x) == ~x.none /\ x.val # {}
TruthyList(x) == ~x.none /\ Len(x.val) > 0

\* -------------------------------------------------------- parse_codes_names
\* arg is the --codes string, given as its pieces between the commas
\* (arg.split(",")); the empty string is << <<>> >>
RECURSIVE ParseLoop(_, _, _)
ParseLoop(raws, sec_codes, name_pats) ==
    IF raws = <<>> THEN <<sec_codes, name_pats>>
    ELSE LET tok == Strip(Head(raws))
         IN  IF tok = <<>> THEN ParseLoop(Tail(raws), sec_codes, name_pats)
             ELSE IF CODE4(tok)
             THEN ParseLoop(Tail(raws), sec_codes \cup {tok}, name_pats)
             ELSE ParseLoop(Tail(raws), sec_codes, Append(name_pats, tok))

parse_codes_names(arg) ==
    IF arg = << <<>> >> THEN <<NoSet, NoList>>
    ELSE LET r == ParseLoop(arg, {}, <<>>)
         IN  <<IF r[1] # {} THEN Some(r[1]) ELSE NoSet,
               IF r[2] # <<>> THEN Some(r[2]) ELSE NoList>>

\* ------------------------------------------------------------- edinet_pick
\* JSON null
Null == <<"null">>
\* str(x or "") of a record field
StrOrEmpty(x) == IF x = Null THEN <<>> ELSE x

\* EDINET_FILTERS
FilterYuho(r) == r.ordinanceCode = "010" /\ r.formCode = "030000"
FilterQuarter(r) == r.ordinanceCode = "010" /\ r.formCode \in {"043000", "043001"}

match_company(name, pats) ==
    IF ~TruthyList(pats) THEN FALSE
    ELSE \E k \in 1..Len(pats.val) : Search(pats.val[k], StrOrEmpty(name))

\* the body of the loop of edinet_pick: whether rec is appended to picked
\* PickKeeps with the category gate skipped when the record matches a code
PickKeepsCodeBypass(rec, include_yuho, include_quarter, sec_codes, name_pats) ==
    LET sec == StrOrEmpty(rec.secCode)
        issuer == StrOrEmpty(rec.filerName)
        ok_type == (include_yuho /\ FilterYuho(rec)) \/ (include_quarter /\ FilterQuarter(rec))
    IN  \/ (TruthySet(sec_codes) /\ sec \in sec_codes.val)
        \/ /\ ok_type
           /\ (TruthySet(sec_codes) \/ TruthyList(name_pats)) => match_company(issuer, name_pats)

PickKeeps(rec, include_yuho, include_quarter, sec_codes, name_pats) ==
    LET sec == StrOrEmpty(rec.secCode)
        issuer == StrOrEmpty(rec.filerName)
        ok_type == (include_yuho /\ FilterYuho(rec)) \/ (include_quarter /\ FilterQuarter(rec))
    IN  /\ ok_type
        /\ (TruthySet(sec_codes) \/ TruthyList(name_pats)) =>
               \/ (TruthySet(sec_codes) /\ sec \in sec_codes.val)
               \/ match_company(issuer, name_pats)

RECURSIVE edinet_pick(_, _, _, _, _)
edinet_pick(records, include_yuho, include_quarter, sec_codes, name_pats) ==
    IF records = <<>> THEN <<>>
    ELSE LET rest == edinet_pick(Tail(records), include_yuho, include_quarter,
                                 sec_codes, name_pats)
         IN  IF PickKeeps(Head(records), include_yuho, include_quarter, sec_codes, name_pats)
             THEN <<Head(records)>> \o rest
             ELSE rest

\* the filing records a listing can hold: every category the filter tells
\* apart, for a listed issuer and for an issuer without a security code
Categories == {<<"010", "030000">>, <<"010", "043000">>, <<"010", "043001">>,
               <<"020", "030000">>, <<"010", "050000">>}
Issuers == {<<<<"7", "2", "0", "3">>, <<"T", "o", "y">>>>,
            <<Null, <<"s", "o", "/", "n", "y">>>>}
RecUniverse ==
    {[ordinanceCode |-> c[1], formCode |-> c[2], secCode |-> i[1], filerName |-> i[2]] :
        c \in Categories, i \in Issuers}

\* the pieces of a --codes argument
RawTokens == {<<>>, <<" ", "7", "2", "0", "3">>, <<"N", "Y">>, <<"t", "o">>}

CodeArgs == SeqsUpTo(RawTokens, MaxTokens) \ {<<>>}

\* a call of edinet_pick on what a listing returned and what parse_args made
\* of the command line
PickArgs ==
    /\ pk = [pc |-> "idle"]
    /\ \E recs \in SeqsUpTo(RecUniverse, MaxRecs), y \in BOOLEAN, q \in BOOLEAN, a \in CodeArgs :
          pk' = [pc |-> "args", records |-> recs, include_yuho |-> y, include_quarter |-> q,
                 codes |-> a, sec_codes |-> NoSet, name_pats |-> NoList, picked |-> <<>>]
    /\ UNCHANGED <<h, index_csv, lg, m>>

PickParse ==
    /\ pk.pc = "args"
    /\ LET r == parse_codes_names(pk.codes)
       IN  pk' = [pk EXCEPT !.pc = "parsed", !.sec_codes = r[1], !.name_pats = r[2]]
    /\ UNCHANGED <<h, index_csv, lg, m>>

PickCall ==
    /\ pk.pc = "parsed"
    /\ pk' = [pk EXCEPT !.pc = "picked",
                        !.picked = edinet_pick(pk.records, pk.include_yuho, pk.include_quarter,
                                               pk.sec_codes, pk.name_pats)]
    /\ UNCHANGED <<h, index_csv, lg, m>>

InitPick ==
    h = Unused /\ pk = [pc |-> "idle"] /\ index_csv = Unused /\ lg = Unused /\ m = Unused
NextPick == PickArgs \/ PickParse \/ PickCall
SpecPick == InitPick /\ [][NextPick]_vars

\* ---- claim about edinet_pick (checked under SpecPick)
CategoryEnabled(r, y, q) ==
    \/ (y /\ r.ordinanceCode = "010" /\ r.formCode = "030000")
    \/ (q /\ r.ordinanceCode = "010" /\ r.formCode \in {"043000", "043001"})
IdentifierOK(r, codes, pats) ==
    \/ (codes.none /\ pats.none)
    \/ (~codes.none /\ StrOrEmpty(r.secCode) \in codes.val)
    \/ (~pats.none /\ \E k \in 1..Len(pats.val) : Search(pats.val[k], StrOrEmpty(r.filerName)))
\* the positions of s whose element satisfies the claim's condition, in order
Selected(s, y, q, codes, pats) ==
    SelectSeq(s, LAMBDA r : CategoryEnabled(r, y, q) /\ IdentifierOK(r, codes, pats))

\* C4: edinet_pick returns, in input order, exactly the records whose category
\* is enabled and which pass the identifier filter (no filter at all, or the
\* security code in code_set, or the issuer name matching a pattern).
C4_PickIsCategoryAndIdentifier ==
    pk.pc = "picked" =>
        /\ pk.picked = Selected(pk.records, pk.include_yuho, pk.include_quarter,
                                pk.sec_codes, pk.name_pats)
        /\ \A k \in 1..Len(pk.picked) :
              CategoryEnabled(pk.picked[k], pk.include_yuho, pk.include_quarter)
        /\ (pk.sec_codes.none /\ pk.name_pats.none) =>
              pk.picked = SelectSeq(pk.records,
                            LAMBDA r : CategoryEnabled(r, pk.include_yuho, pk.include_quarter))

\* a code filter, a record of a disabled category carrying that code (left
\* out) and a record of an enabled category carrying it (returned)
C4_Witness ==
    /\ pk.pc = "picked"
    /\ pk.include_yuho /\ ~pk.include_quarter
    /\ ~pk.sec_codes.none
    /\ Len(pk.records) = 2 /\ Len(pk.picked) = 1
    /\ FilterQuarter(pk.records[1]) /\ StrOrEmpty(pk.records[1].secCode) \in pk.sec_codes.val
    /\ pk.picked[1] = pk.records[2]

\* ------------------------------------------------------------- http_get
\* the statuses {429, 500, 502, 503, 504} that http_get retries
RETRY_STATUSES == {429, 500, 502, 503, 504}

\* the statuses the servers answer with: 200, a non-error status other than
\* 200, two permanent errors, and the retried ones
Statuses == {200, 204, 403, 404} \cup RETRY_STATUSES

\* what one requests.get call does: it raises a transport exception, or it
\* returns a response
Outcomes == {[kind |-> "transport"]} \cup {[kind |-> "status", status |-> s] : s \in Statuses}

NoExc == [type |-> "None"]
NoResp == [status |-> 0, attempt |-> 0]
RuntimeError == [type |-> "RuntimeError"]

\* requests.Response.raise_for_status raises HTTPError for 400 <= status < 600
RaisesForStatus(s) == 400 <= s /\ s < 600

\* the locals of http_get on entry; requests, delays, trace and slept record
\* what the call has done so far
HttpStart(max_retries) ==
    [pc |-> "loop", max_retries |-> max_retries, i |-> 0, last_exc |-> NoExc,
     result |-> NoResp, raised |-> NoExc,
     requests |-> 0, delays |-> 0, slept |-> FALSE, trace |-> <<>>]

\* the except clause: last_exc = e; time.sleep(1.5)
HttpExcept(s, e) ==
    [s EXCEPT !.last_exc = e, !.delays = @ + 1, !.slept = TRUE]

\* HttpAttempt with the sleep before "continue" left out
HttpAttemptNoSleepOnStatus(s, out) ==
    LET n == s.i + 1
        t == [s EXCEPT !.i = n, !.requests = @ + 1, !.slept = FALSE,
                       !.trace = Append(@, out)]
    IN  IF out.kind = "transport"
        THEN HttpExcept(t, [type |-> "Transport", attempt |-> n])
        ELSE IF out.status = 200
        THEN [t EXCEPT !.pc = "returned", !.result = [status |-> 200, attempt |-> n]]
        ELSE IF out.status \in RETRY_STATUSES
        THEN t
        ELSE IF RaisesForStatus(out.status)
        THEN HttpExcept(t, [type |-> "HTTPError", status |-> out.status, attempt |-> n])
        ELSE t

\* one iteration of the for loop, the request ending in outcome out
HttpAttempt(s, out) ==
    LET n == s.i + 1
        t == [s EXCEPT !.i = n, !.requests = @ + 1, !.slept = FALSE,
                       !.trace = Append(@, out)]
    IN  IF out.kind = "transport"
        THEN HttpExcept(t, [type |-> "Transport", attempt |-> n])
        ELSE IF out.status = 200
        THEN [t EXCEPT !.pc = "returned", !.result = [status |-> 200, attempt |-> n]]
        ELSE IF out.status \in RETRY_STATUSES
        THEN [t EXCEPT !.delays = @ + 1, !.slept = TRUE]
        ELSE IF RaisesForStatus(out.status)
        THEN HttpExcept(t, [type |-> "HTTPError", status |-> out.status, attempt |-> n])
        ELSE t

\* HttpAfterLoop raising the generic failure whatever was caught
HttpAfterLoopGeneric(s) ==
    [s EXCEPT !.pc = "raised", !.raised = RuntimeError]

\* the code after the loop: raise last_exc, or the generic RuntimeError
HttpAfterLoop(s) ==
    [s EXCEPT !.pc = "raised",
              !.raised = IF s.last_exc # NoExc THEN s.last_exc ELSE RuntimeError]

HttpLoopDone(s) == s.i >= s.max_retries

\* http_get as a whole, the k-th request ending in script[k]
RECURSIVE HttpRun(_, _)
HttpRun(s, script) ==
    IF s.pc # "loop" THEN s
    ELSE IF HttpLoopDone(s) THEN HttpAfterLoop(s)
    ELSE HttpRun(HttpAttempt(s, script[s.i + 1]), script)

http_get(script, max_retries) == HttpRun(HttpStart(max_retries), script)

Scripts(n) == [1..n -> Outcomes]

\* how a call of http_get can end for its caller: "returned" or "raised"
HttpEnds == [n \in 0..MaxRetries |-> {http_get(s, n).pc : s \in Scripts(n)}]

HttpIdle == [pc |-> "idle"]

HttpCall ==
    /\ h = HttpIdle
    /\ \E n \in 0..MaxRetries : h' = HttpStart(n)
    /\ UNCHANGED <<pk, index_csv, lg, m>>

HttpRequest ==
    /\ h.pc = "loop"
    /\ ~HttpLoopDone(h)
    /\ \E out \in Outcomes : h' = HttpAttempt(h, out)
    /\ UNCHANGED <<pk, index_csv, lg, m>>

HttpExhausted ==
    /\ h.pc = "loop"
    /\ HttpLoopDone(h)
    /\ h' = HttpAfterLoop(h)
    /\ UNCHANGED <<pk, index_csv, lg, m>>

InitHttp == h = HttpIdle /\ pk = Unused /\ index_csv = Unused /\ lg = Unused /\ m = Unused
NextHttp == HttpCall \/ HttpRequest \/ HttpExhausted
SpecHttp == InitHttp /\ [][NextHttp]_vars

\* ---- claims about http_get (checked under SpecHttp)
IsOK(out) == out.kind = "status" /\ out.status = 200
IsRetryable(out) ==
    out.kind = "transport" \/ (out.kind = "status" /\ out.status \in RETRY_STATUSES)
IsPermanent(out) ==
    out.kind = "status" /\ out.status \notin ({200} \cup RETRY_STATUSES)
AttemptRaised(out) ==
    out.kind = "transport" \/ (IsPermanent(out) /\ RaisesForStatus(out.status))
ExcOfAttempt(k, out) ==
    IF out.kind = "transport" THEN [type |-> "Transport", attempt |-> k]
    ELSE [type |-> "HTTPError", status |-> out.status, attempt |-> k]
HttpActive == h.pc \in {"loop", "returned", "raised"}

\* C1 (as claimed): a response whose status is neither 200 nor a retried one
\* ends the call at once: it is the last request of the call, and no delay is
\* slept after it.
C1_PermanentStatusEndsCall ==
    HttpActive =>
        \A k \in 1..Len(h.trace) :
            IsPermanent(h.trace[k]) => (k = Len(h.trace) /\ ~h.slept)

\* C2: when the first k requests end in retryable outcomes and request k+1
\* answers 200, http_get returns that response after exactly k+1 requests and
\* exactly k delays; and no call issues more than max_retries requests.
C2_RetryThenSuccess ==
    HttpActive =>
        /\ h.requests <= h.max_retries
        /\ \A j \in 1..Len(h.trace) :
              (IsOK(h.trace[j]) /\ \A k \in 1..(j - 1) : IsRetryable(h.trace[k]))
                  => /\ j = Len(h.trace)
                     /\ h.pc = "returned"
                     /\ h.result = [status |-> 200, attempt |-> j]
                     /\ h.requests = j
                     /\ h.delays = j - 1

\* 503, 503, 200 with max_retries = 3: returned after two delays
C2_Witness ==
    /\ HttpActive
    /\ h.pc = "returned"
    /\ h.max_retries = 3
    /\ h.trace = <<[kind |-> "status", status |-> 503],
                   [kind |-> "status", status |-> 503],
                   [kind |-> "status", status |-> 200]>>
    /\ h.delays = 2

\* C3: http_get returns only responses of status 200; when it raises, every
\* one of its max_retries requests has failed, and it raises the exception of
\* the latest request that raised one, or the generic RuntimeError when no
\* request raised any.
C3_RaisesLastException ==
    HttpActive =>
        /\ h.pc = "returned" =>
              /\ h.result.status = 200
              /\ h.result.attempt \in 1..Len(h.trace)
              /\ IsOK(h.trace[h.result.attempt])
        /\ h.pc = "raised" =>
              LET R == {k \in 1..Len(h.trace) : AttemptRaised(h.trace[k])}
              IN  /\ Len(h.trace) = h.max_retries
                  /\ \A k \in 1..Len(h.trace) : ~IsOK(h.trace[k])
                  /\ R # {} =>
                        LET last == CHOOSE k \in R : \A j \in R : j <= k
                        IN  h.raised = ExcOfAttempt(last, h.trace[last])
                  /\ R = {} => h.raised = RuntimeError

\* a transport exception on the first request, then two retried statuses:
\* the first request's exception is raised
C3_Witness ==
    /\ HttpActive
    /\ h.pc = "raised"
    /\ Len(h.trace) = 3
    /\ h.trace[1].kind = "transport"
    /\ h.trace[2] = [kind |-> "status", status |-> 503]
    /\ h.trace[3] = [kind |-> "status", status |-> 429]
    /\ h.raised = [type |-> "Transport", attempt |-> 1]

\* -------------------------------------------------------------- append_log
Absent == [exists |-> FALSE, rows |-> <<>>]
HEADER == <<"source", "date", "secCode", "issuer", "docID", "desc", "files">>

\* append_log with the file opened for writing instead of appending
append_log_truncating(file, rows) ==
    [exists |-> TRUE, rows |-> (IF ~file.exists THEN <<HEADER>> ELSE <<>>) \o rows]

\* append_log(index_csv, rows): the file after the call
append_log(file, rows) ==
    LET newfile == ~file.exists
    IN  [exists |-> TRUE,
         rows |-> file.rows \o (IF newfile THEN <<HEADER>> ELSE <<>>) \o rows]

\* the rows main hands to append_log: registry rows and a feed row
LogRows ==
    {<<"EDINET", 1, <<"7", "2", "0", "3">>, <<"T", "o", "y">>, <<1, 1>>, "desc", <<>>>>,
     <<"TDNET", <<1, 2>>, "", "", "", "KS", <<>>>>}

\* one more call of append_log on the same index.csv, in this run or a later
\* one; main calls it with at least one row
AppendLog ==
    /\ lg.pc = "log"
    /\ Len(lg.calls) < MaxAppends
    /\ \E rows \in SeqsUpTo(LogRows, MaxRows) \ {<<>>} :
          /\ index_csv' = append_log(index_csv, rows)
          /\ lg' = [lg EXCEPT !.calls = Append(@, rows)]
    /\ UNCHANGED <<h, pk, m>>

InitLog ==
    h = Unused /\ pk = Unused /\ index_csv = Absent /\ lg = [pc |-> "log", calls |-> <<>>]
      /\ m = Unused
NextLog == AppendLog
SpecLog == InitLog /\ [][NextLog]_vars

\* ---- claim about append_log (checked under SpecLog)
RECURSIVE Flatten(_)
Flatten(ss) == IF ss = <<>> THEN <<>> ELSE Head(ss) \o Flatten(Tail(ss))

\* C7: the log only grows by appending: after any calls of append_log the
\* file holds the header once, as its first row, followed by the rows of every
\* call in call order, repeated rows included; and a call leaves the rows
\* that were there in place.
C7_LogOnlyAppends ==
    /\ (lg.calls = <<>>) <=> ~index_csv.exists
    /\ index_csv.exists =>
          /\ index_csv.rows = <<HEADER>> \o Flatten(lg.calls)
          /\ index_csv.rows[1] = HEADER
          /\ Cardinality({k \in 1..Len(index_csv.rows) : index_csv.rows[k] = HEADER}) = 1

\* the same rows appended by two calls: they are there twice
C7_Witness ==
    /\ Len(lg.calls) = 2
    /\ lg.calls[1] = lg.calls[2]
    /\ Len(index_csv.rows) = 1 + 2 * Len(lg.calls[1])
    /\ SubSeq(index_csv.rows, 2, 1 + Len(lg.calls[1])) = lg.calls[1]
    /\ SubSeq(index_csv.rows, 2 + Len(lg.calls[1]), Len(index_csv.rows)) = lg.calls[1]

\* ------------------------------------------------------------ safe_filename
\* the characters SAFE_NAME leaves alone: word characters, "-" and "."
\* (the titles and names here hold no CJK character)
SafeChar(c) ==
    c \in Digits \cup {"-", ".", "_"} \cup DOMAIN Upper
          \cup {"a", "b", "c", "d", "e", "f", "g", "h", "i", "j", "k", "l", "m",
                "n", "o", "p", "q", "r", "s", "t", "u", "v", "w", "x", "y", "z",
                "K", "Q"}

\* SAFE_NAME.sub("_", name): every run of other characters becomes one "_"
RECURSIVE SubUnsafe(_, _)
SubUnsafe(t, inRun) ==
    IF t = <<>> THEN <<>>
    ELSE IF SafeChar(Head(t)) THEN <<Head(t)>> \o SubUnsafe(Tail(t), FALSE)
    ELSE IF inRun THEN SubUnsafe(Tail(t), TRUE)
    ELSE <<"_">> \o SubUnsafe(Tail(t), TRUE)

\* str.strip("._ ")
RECURSIVE StripChars(_)
StripChars(t) ==
    IF t # <<>> /\ Head(t) \in {".", "_", " "} THEN StripChars(Tail(t))
    ELSE IF t # <<>> /\ t[Len(t)] \in {".", "_", " "}
    THEN StripChars(SubSeq(t, 1, Len(t) - 1))
    ELSE t

\* name[:180]
NameCap == 180

safe_filename(name) ==
    LET t == StripChars(SubUnsafe(name, FALSE))
    IN  SubSeq(t, 1, IF Len(t) < NameCap THEN Len(t) ELSE NameCap)

\* ------------------------------------------------------------------- main
Days == 1..MaxDay

EDINET_TYPE_MAP == [xbrl |-> 1, pdf |-> 2, csv |-> 5]

\* the command lines and environments a run is started with
StartArgs ==
    [start : Days, end : Days,
     edinet_filetypes : {<<"xbrl", "pdf">>, <<"doc">>, <<>>},
     include_yuho : BOOLEAN, include_quarter : {FALSE},
     tdnet : BOOLEAN, tdnet_limit : {50},
     codes : {<< <<>> >>, << <<"7", "2", "0", "3">> >>, << <<"6", "7", "5", "8">> >>},
     max_retries : {0, MaxRetries},
     api_key : {"", "key"}]

NoOpt == [pc |-> "unparsed"]

\* the state of a run before parse_args
MainStart(argv) ==
    [pc |-> "parse_args", argv |-> argv, opt |-> NoOpt,
     \* the registry pass: the day of the outer loop, the picked records, the
     \* position in them, the rows of the day; and edinet_download's position
     \* in filetypes and its saved paths
     day |-> 0, picked |-> <<>>, di |-> 0, rows |-> <<>>, ki |-> 0, paths |-> <<>>,
     \* the feed pass: the feed URLs, the position in them, the entries of the
     \* current feed read so far, seen_links and saved
     urls |-> <<>>, ui |-> 0, ecount |-> 0, seen_links |-> {}, saved |-> <<>>,
     \* the files on disk under the output root
     disk |-> {},
     \* what the run has done: the listing calls, the documents selected, how
     \* each download ended, the feed URLs parsed, the entries whose link was
     \* fetched, the links skipped as seen, the titles handed to
     \* tdnet_entry_matches, the publish days of the entries saved, and
     \* whether the feed pass raised
     listed |-> <<>>, selected |-> <<>>, docs |-> <<>>, parsed |-> <<>>,
     fetched |-> <<>>, reseen |-> {}, matched |-> {}, tdates |-> {},
     tdnet_failed |-> FALSE]

\* parse_args: the Options, or SystemExit
ParseArgs ==
    /\ m.pc = "parse_args"
    /\ LET a == m.argv
           ids == parse_codes_names(a.codes)
       IN  IF a.end < a.start
              \/ \E k \in 1..Len(a.edinet_filetypes) :
                     a.edinet_filetypes[k] \notin DOMAIN EDINET_TYPE_MAP
           THEN m' = [m EXCEPT !.pc = "exit"]
           ELSE m' = [m EXCEPT !.pc = "main",
                      !.opt = [start |-> a.start, end |-> a.end,
                               edinet_filetypes |-> a.edinet_filetypes,
                               include_yuho |-> a.include_yuho,
                               include_quarter |-> a.include_quarter,
                               tdnet |-> a.tdnet, tdnet_limit |-> a.tdnet_limit,
                               sec_codes |-> ids[1], name_pats |-> ids[2],
                               api_key |-> a.api_key, max_retries |-> a.max_retries]]
    /\ UNCHANGED <<h, pk, index_csv, lg>>

\* main up to the registry loop: the credential check
MainBegin ==
    /\ m.pc = "main"
    /\ IF m.opt.include_yuho \/ m.opt.include_quarter
       THEN IF m.opt.api_key = ""
            THEN m' = [m EXCEPT !.pc = "exit"]
            ELSE m' = [m EXCEPT !.pc = "edinet_day", !.day = m.opt.start]
       ELSE m' = [m EXCEPT !.pc = "tdnet"]
    /\ UNCHANGED <<h, pk, index_csv, lg>>

\* the filing records a day's listing can hold
ListingRecs ==
    {r \in RecUniverse :
        /\ <<r.ordinanceCode, r.formCode>> = <<"010", "030000">>
        /\ r.secCode # Null}

\* the records of a listing, each with its document identifier and description
Listing(day, recs) ==
    [k \in 1..Len(recs) |->
        [ordinanceCode |-> recs[k].ordinanceCode, formCode |-> recs[k].formCode,
         secCode |-> recs[k].secCode, filerName |-> recs[k].filerName,
         docID |-> <<day, k>>, docDescription |-> "desc"]]

\* the outer loop is over: on to the feed pass
EdinetDaysDone ==
    /\ m.pc = "edinet_day"
    /\ m.day > m.opt.end
    /\ m' = [m EXCEPT !.pc = "tdnet", !.day = 0]
    /\ UNCHANGED <<h, pk, index_csv, lg>>

\* ListingRaised with the exception left to end the run
ListingRaisedUncaught ==
    [m EXCEPT !.pc = "exit", !.listed = Append(@, [day |-> m.day, ok |-> FALSE])]

\* main's handler of an exception out of edinet_fetch_list: a warning, and on
\* to the next day
ListingRaised ==
    [m EXCEPT !.day = @ + 1, !.listed = Append(@, [day |-> m.day, ok |-> FALSE])]

\* one day of the outer loop up to the inner loop: edinet_fetch_list raises
\* (the day is skipped), or returns the day's records, which are picked
EdinetDay ==
    /\ m.pc = "edinet_day"
    /\ m.day <= m.opt.end
    /\ \E end \in HttpEnds[m.opt.max_retries] :
          IF end = "raised"
          THEN m' = ListingRaised
          ELSE \E recs \in SeqsUpTo(ListingRecs, MaxDocs) :
                  LET records == Listing(m.day, recs)
                      picked == edinet_pick(records, m.opt.include_yuho,
                                            m.opt.include_quarter,
                                            m.opt.sec_codes, m.opt.name_pats)
                  IN  IF picked = <<>>
                      THEN m' = [m EXCEPT !.day = @ + 1,
                                          !.listed = Append(@, [day |-> m.day, ok |-> TRUE])]
                      ELSE m' = [m EXCEPT !.pc = "edinet_doc", !.picked = picked,
                                          !.di = 1, !.rows = <<>>, !.ki = 1,
                                          !.paths = <<>>,
                                          !.listed = Append(@, [day |-> m.day, ok |-> TRUE]),
                                          !.selected = @ \o [k \in 1..Len(picked) |->
                                                                 picked[k].docID]]
    /\ UNCHANGED <<h, pk, index_csv, lg>>

EdinetPath(day, doc, ft) ==
    [root |-> "EDINET", day |-> day,
     name |-> <<StrOrEmpty(doc.secCode), safe_filename(StrOrEmpty(doc.filerName)),
                doc.docID, ft, IF ft \in {"xbrl", "csv"} THEN ".zip" ELSE ".pdf">>]

\* the row main appends for a downloaded document
EdinetRow(day, rec, paths) ==
    <<"EDINET", day, StrOrEmpty(rec.secCode), StrOrEmpty(rec.filerName),
      rec.docID, rec.docDescription, paths>>

\* DownloadRaised with the failed document logged like a downloaded one
DownloadRaisedStillLogged(rec) ==
    [m EXCEPT !.di = @ + 1, !.ki = 1, !.paths = <<>>,
              !.rows = Append(@, EdinetRow(m.day, rec, m.paths)),
              !.docs = Append(@, [docID |-> rec.docID, ok |-> FALSE, written |-> m.paths])]

\* main's handler of an exception out of edinet_download: a warning, and on
\* to the next document; no row, and the files written so far stay
DownloadRaised(rec) ==
    [m EXCEPT !.di = @ + 1, !.ki = 1, !.paths = <<>>,
              !.docs = Append(@, [docID |-> rec.docID, ok |-> FALSE, written |-> m.paths])]

\* one file kind of edinet_download for the current document: http_get raises
\* and so does edinet_download, or the file is written
EdinetKind ==
    /\ m.pc = "edinet_doc"
    /\ m.di <= Len(m.picked)
    /\ m.ki <= Len(m.opt.edinet_filetypes)
    /\ LET rec == m.picked[m.di]
           ft == m.opt.edinet_filetypes[m.ki]
           path == EdinetPath(m.day, rec, ft)
       IN  \E end \in HttpEnds[m.opt.max_retries] :
              IF end = "raised"
              THEN m' = DownloadRaised(rec)
              ELSE m' = [m EXCEPT !.ki = @ + 1, !.paths = Append(@, path),
                                  !.disk = @ \cup {path}]
    /\ UNCHANGED <<h, pk, index_csv, lg>>

\* edinet_download returns: main appends the document's row to rows
EdinetDocDone ==
    /\ m.pc = "edinet_doc"
    /\ m.di <= Len(m.picked)
    /\ m.ki > Len(m.opt.edinet_filetypes)
    /\ LET rec == m.picked[m.di]
       IN  m' = [m EXCEPT !.di = @ + 1, !.ki = 1, !.paths = <<>>,
                   !.rows = Append(@, EdinetRow(m.day, rec, m.paths)),
                   !.docs = Append(@, [docID |-> rec.docID, ok |-> TRUE,
                                       written |-> m.paths])]
    /\ UNCHANGED <<h, pk, index_csv, lg>>

\* the inner loop is over: the day's rows are logged, on to the next day
EdinetDayDone ==
    /\ m.pc = "edinet_doc"
    /\ m.di > Len(m.picked)
    /\ index_csv' = IF m.rows # <<>> THEN append_log(index_csv, m.rows) ELSE index_csv
    /\ m' = [m EXCEPT !.pc = "edinet_day", !.day = @ + 1, !.picked = <<>>, !.di = 0,
                      !.ki = 0, !.rows = <<>>]
    /\ UNCHANGED <<h, pk, lg>>

\* ------------------------------------------------------------ the feed pass
\* the literal the titles of earnings summaries carry, standing for the four
\* characters of the marker in the source
MARKER == <<"K", "S">>

\* max_retries of the http_get call on an entry's link
FeedRetries == 3
\* the limit tdnet_download_dec_summary passes to tdnet_feed_urls
FeedLimit == 1000

tdnet_feed_urls(start, end, limit) ==
    IF start = end
    THEN <<[kind |-> "day", start |-> start, end |-> start, limit |-> 0]>>
    ELSE <<[kind |-> "range", start |-> start, end |-> end, limit |-> 0],
           [kind |-> "recent", start |-> 0, end |-> 0, limit |-> limit]>>

\* re.search(r"(?<!\d)(\d{4})(?!\d)", text): the places where a run of exactly
\* four digits stands
CodeAt(text, i) ==
    /\ i + 3 <= Len(text)
    /\ \A j \in i..(i + 3) : text[j] \in Digits
    /\ (i = 1 \/ text[i - 1] \notin Digits)
    /\ (i + 4 > Len(text) \/ text[i + 4] \notin Digits)

tdnet_entry_matches(e, sec_codes, name_pats) ==
    LET title == e.title
        summary == e.summary
        text == title \o <<" ">> \o summary
        at == {i \in 1..Len(text) : CodeAt(text, i)}
        first == CHOOSE i \in at : \A j \in at : i <= j
    IN  \/ (TruthySet(sec_codes) /\ at # {}
              /\ SubSeq(text, first, first + 3) \in sec_codes.val)
        \/ (TruthyList(name_pats)
              /\ \E k \in 1..Len(name_pats.val) : Search(name_pats.val[k], text))
        \/ ~(TruthySet(sec_codes) \/ TruthyList(name_pats))

\* what the feed service holds: titles, links and publish stamps
FeedTitles == {<<"7", "2", "0", "3", "/">> \o MARKER, <<"7", "2", "0", "3">>}
FeedLinks == {"", "L1", "L2"}
Stamp(d) == [kind |-> "date", day |-> d]
NoStamp == [kind |-> "absent", day |-> 0]
BadStamp == [kind |-> "unparsable", day |-> 0]

\* the entries a feed URL can return: the single-day and the range feed hold
\* the entries published in their days, the recent feed the latest entries
\* whatever their day
FeedEntries(url) ==
    [title : FeedTitles, summary : {<<>>}, link : FeedLinks,
     published : {NoStamp, BadStamp} \cup
                 {Stamp(d) : d \in IF url.kind = "recent" THEN 1..(MaxDay + 1)
                                   ELSE url.start..url.end}]

TdnetPath(day, title) ==
    [root |-> "TDNET", day |-> day, name |-> <<safe_filename(title), ".pdf">>]

\* main after the registry pass: the feed pass begins, or the run is complete
TdnetBegin ==
    /\ m.pc = "tdnet"
    /\ IF m.opt.tdnet
       THEN m' = [m EXCEPT !.pc = "tdnet_feed",
                           !.urls = tdnet_feed_urls(m.opt.start, m.opt.end, FeedLimit),
                           !.ui = 1, !.ecount = 0, !.seen_links = {}, !.saved = <<>>]
       ELSE m' = [m EXCEPT !.pc = "done"]
    /\ UNCHANGED <<h, pk, index_csv, lg>>

\* feedparser.parse(url) for the next feed URL: it raises, which ends the
\* pass in main's handler (saved = []), or it returns the feed
TdnetFeed ==
    /\ m.pc = "tdnet_feed"
    /\ m.ui <= Len(m.urls)
    /\ \/ m' = [m EXCEPT !.pc = "tdnet_after", !.saved = <<>>, !.tdnet_failed = TRUE,
                        !.parsed = Append(@, m.urls[m.ui])]
       \/ m' = [m EXCEPT !.pc = "tdnet_entry", !.ecount = 0,
                        !.parsed = Append(@, m.urls[m.ui])]
    /\ UNCHANGED <<h, pk, index_csv, lg>>

\* LinkSkipped without the look into seen_links
LinkSkippedOnlyIfEmpty(link, seen_links) == link = ""

\* "if not link or link in seen_links: continue"
LinkSkipped(link, seen_links) == link = "" \/ link \in seen_links

\* the save day of an entry: its publish date, or start when it has none or
\* one that does not parse
SaveDay(e, start) == IF e.published.kind = "date" THEN e.published.day ELSE start

\* the publish day of an entry that has one
PublishDays(e) == IF e.published.kind = "date" THEN {e.published.day} ELSE {}

\* the loop body for the next entry e of the current feed
TdnetEntry ==
    /\ m.pc = "tdnet_entry"
    /\ m.ecount < MaxEntries
    /\ \E e \in FeedEntries(m.urls[m.ui]) :
          LET next == [m EXCEPT !.ecount = @ + 1]
          IN  IF ~Occurs(MARKER, e.title) THEN m' = next
              ELSE IF LinkSkipped(e.link, m.seen_links)
              THEN m' = [next EXCEPT !.reseen = @ \cup ({e.link} \cap m.seen_links)]
              ELSE IF ~tdnet_entry_matches(e, m.opt.sec_codes, m.opt.name_pats)
              THEN m' = [next EXCEPT !.matched = @ \cup {e.title}]
              ELSE \E end \in HttpEnds[FeedRetries] :
                      LET tried == [next EXCEPT !.matched = @ \cup {e.title},
                                                !.seen_links = @ \cup {e.link},
                                                !.fetched = Append(@, [link |-> e.link,
                                                                       title |-> e.title])]
                          path == TdnetPath(SaveDay(e, m.opt.start), e.title)
                      IN  IF end = "raised" THEN m' = tried
                          ELSE m' = [tried EXCEPT !.disk = @ \cup {path},
                                                  !.saved = Append(@, path),
                                                  !.tdates = @ \cup PublishDays(e)]
    /\ UNCHANGED <<h, pk, index_csv, lg>>

\* the current feed has no further entry
TdnetFeedEnd ==
    /\ m.pc = "tdnet_entry"
    /\ m' = [m EXCEPT !.pc = "tdnet_feed", !.ui = @ + 1, !.ecount = 0]
    /\ UNCHANGED <<h, pk, index_csv, lg>>

\* every feed URL is read: tdnet_download_dec_summary returns saved
TdnetReturn ==
    /\ m.pc = "tdnet_feed"
    /\ m.ui > Len(m.urls)
    /\ m' = [m EXCEPT !.pc = "tdnet_after"]
    /\ UNCHANGED <<h, pk, index_csv, lg>>

TdnetRow(start, end, saved) == <<"TDNET", <<start, end>>, "", "", "", "KS", saved>>

\* main after the feed pass: the feed row is logged, and the completion notice
MainFinish ==
    /\ m.pc = "tdnet_after"
    /\ index_csv' = IF m.saved # <<>>
                    THEN append_log(index_csv, <<TdnetRow(m.opt.start, m.opt.end, m.saved)>>)
                    ELSE index_csv
    /\ m' = [m EXCEPT !.pc = "done", !.urls = <<>>, !.ui = 0, !.seen_links = {},
                      !.saved = <<>>]
    /\ UNCHANGED <<h, pk, lg>>

InitMain ==
    /\ h = Unused /\ pk = Unused /\ lg = Unused
    /\ index_csv = Absent
    /\ \E argv \in StartArgs : m = MainStart(argv)
NextMain ==
    \/ ParseArgs \/ MainBegin
    \/ EdinetDay \/ EdinetKind \/ EdinetDocDone \/ EdinetDayDone \/ EdinetDaysDone
    \/ TdnetBegin \/ TdnetFeed \/ TdnetEntry \/ TdnetFeedEnd \/ TdnetReturn
    \/ MainFinish
SpecMain == InitMain /\ [][NextMain]_vars

\* the runs without a --codes filter
InitMainNoCodes ==
    /\ h = Unused /\ pk = Unused /\ lg = Unused
    /\ index_csv = Absent
    /\ \E argv \in StartArgs : argv.codes = << <<>> >> /\ m = MainStart(argv)
\* main is sequential code: a step that can be taken is taken
SpecMainFair == InitMainNoCodes /\ [][NextMain]_vars /\ WF_vars(NextMain)

\* ---- claims about main (checked under SpecMain, C5 under SpecMainFair)
Parsed == m.opt # NoOpt
\* the run is past argument validation and the credential check
Running ==
    m.pc \in {"edinet_day", "edinet_doc", "tdnet", "tdnet_feed", "tdnet_entry", "tdnet_after"}
RegistryOn == m.opt.include_yuho \/ m.opt.include_quarter
IsPrefix(s, t) == Len(s) <= Len(t) /\ SubSeq(t, 1, Len(s)) = s

\* C5: a run past argument validation and the credential check reaches the
\* completion notice whatever fails on the way; by then every day of the
\* range has had its listing call, every selected document its download, and
\* the feed pass has been entered when it was asked for; and no step, of the
\* feed pass in particular, takes a row out of the log or a file off the disk.
C5_RunCompletes ==
    /\ Running ~> (m.pc = "done")
    /\ [](m.pc = "done" =>
            /\ RegistryOn =>
                  /\ [k \in 1..Len(m.listed) |-> m.listed[k].day]
                        = [k \in 1..(m.opt.end - m.opt.start + 1) |-> m.opt.start + k - 1]
                  /\ [k \in 1..Len(m.docs) |-> m.docs[k].docID] = m.selected
            /\ m.opt.tdnet => m.parsed # <<>>)
    /\ [][Running =>
            /\ m'.pc # "exit"
            /\ m.disk \subseteq m'.disk
            /\ IsPrefix(index_csv.rows, index_csv'.rows)]_vars

\* a completed run in which the first day's listing failed, a document's
\* download failed, another document was logged, and the feed pass failed
C5_Witness ==
    /\ m.pc = "done"
    /\ Len(m.listed) = 2 /\ ~m.listed[1].ok /\ m.listed[2].ok
    /\ \E k \in 1..Len(m.docs) : ~m.docs[k].ok
    /\ \E k \in 1..Len(m.docs) : m.docs[k].ok
    /\ m.tdnet_failed
    /\ Len(index_csv.rows) = 2

\* C6 (as claimed): every saved feed entry that carries a publish date carries
\* one within the requested range.
C6_SavedWithinRange ==
    Parsed => \A d \in m.tdates : m.opt.start <= d /\ d <= m.opt.end

\* C8 (as claimed): the recent feed is queried with the limit the user
\* configured.
C8_RecentUsesConfiguredLimit ==
    Parsed => \A k \in 1..Len(m.parsed) :
                 m.parsed[k].kind = "recent" => m.parsed[k].limit = m.opt.tdnet_limit

\* the registry rows logged so far or waiting in rows
RegistryRows ==
    SelectSeq(index_csv.rows, LAMBDA r : r[1] = "EDINET") \o (IF Parsed THEN m.rows ELSE <<>>)
RowsOf(docID) == {k \in 1..Len(RegistryRows) : RegistryRows[k][5] = docID}

\* C9: a selected document has a row exactly when its download returned: then
\* one row, listing the path of every requested kind, all written; a document
\* whose download raised has no row, and the files of its earlier kinds are
\* on disk. No row is there for anything else, and at the end of the run
\* every row is in the log.
C9_RowIffDownloaded ==
    Parsed =>
        /\ \A k \in 1..Len(m.docs) :
              LET d == m.docs[k]
                  kinds == m.opt.edinet_filetypes
              IN  IF d.ok
                  THEN /\ Cardinality(RowsOf(d.docID)) = 1
                       /\ \A r \in RowsOf(d.docID) : RegistryRows[r][7] = d.written
                       /\ Len(d.written) = Len(kinds)
                       /\ \A j \in 1..Len(kinds) : d.written[j].name[4] = kinds[j]
                       /\ \A j \in 1..Len(d.written) : d.written[j] \in m.disk
                  ELSE /\ RowsOf(d.docID) = {}
                       /\ Len(d.written) < Len(kinds)
                       /\ \A j \in 1..Len(d.written) :
                             d.written[j].name[4] = kinds[j] /\ d.written[j] \in m.disk
        /\ \A r \in 1..Len(RegistryRows) :
              \E k \in 1..Len(m.docs) : m.docs[k].docID = RegistryRows[r][5]
        /\ m.pc = "done" => m.rows = <<>>

\* a completed run with a document that failed on its second kind (its first
\* file is on disk, it has no row) and a document that was logged
C9_Witness ==
    /\ m.pc = "done"
    /\ \E k \in 1..Len(m.docs) :
          ~m.docs[k].ok /\ Len(m.docs[k].written) = 1 /\ m.docs[k].written[1] \in m.disk
             /\ RowsOf(m.docs[k].docID) = {}
    /\ \E k \in 1..Len(m.docs) : m.docs[k].ok /\ Cardinality(RowsOf(m.docs[k].docID)) = 1

\* C10: within a run no link is fetched twice, an empty link is never
\* fetched, and an entry whose title lacks the marker reaches neither the
\* identifier match nor the fetch.
C10_LinkFetchedOnce ==
    Parsed =>
        /\ \A i, j \in 1..Len(m.fetched) : i # j => m.fetched[i].link # m.fetched[j].link
        /\ \A i \in 1..Len(m.fetched) :
              m.fetched[i].link # "" /\ Occurs(MARKER, m.fetched[i].title)
        /\ \A t \in m.matched : Occurs(MARKER, t)

\* both feeds read to the end: one link's fetch failed, the link came up again
\* and was skipped, and nothing was saved
C10_Witness ==
    /\ m.pc = "tdnet_after"
    /\ Len(m.parsed) = 2
    /\ Len(m.fetched) = 1
    /\ m.saved = <<>> /\ ~m.tdnet_failed
    /\ m.fetched[1].link \in m.reseen

====
